---- MODULE Spec2Model ----
(***************************************************************************)
(* Model of src/webhook-server.js: the Stripe webhook endpoint that        *)
(* verifies an event, inserts an order row into the Supabase "orders"      *)
(* table and sends a confirmation email through Resend.                    *)
(*                                                                         *)
(* Each request is one run of the async handler of app.post("/webhook").   *)
(* The handler's position is pc[r]; the two awaits (the store insert and   *)
(* the email send) are the points where other requests interleave.         *)
(***************************************************************************)
EXTENDS Integers, Sequences, FiniteSets, TLC

\* Number of webhook requests handled in one run of the model.
NumRequests == 2

Requests == 1..NumRequests

(***************************************************************************)
(* JavaScript values.  Every value is a record tagged by t, so that values *)
(* of different JavaScript types can be compared.  A string is a sequence  *)
(* of one-character strings; a number is the decimal n / 10^d.             *)
(***************************************************************************)
Undefined == [t |-> "undefined"]
Null == [t |-> "null"]
NaN == [t |-> "NaN"]
Str(s) == [t |-> "str", s |-> s]
Num(n, d) == [t |-> "num", n |-> n, d |-> d]
Obj(o) == [t |-> "obj", o |-> o]

\* ToBoolean: undefined, null, NaN, "" and 0 are falsy.
Truthy(v) ==
  CASE v.t \in {"undefined", "null", "NaN"} -> FALSE
    [] v.t = "str" -> v.s # <<>>
    [] v.t = "num" -> v.n # 0
    [] OTHER -> TRUE

\* a || b
Or(a, b) == IF Truthy(a) THEN a ELSE b

\* v?.k : undefined when v is null or undefined, or has no property k.
Member(v, k) ==
  IF v.t = "obj" /\ k \in DOMAIN v.o THEN v.o[k] ELSE Undefined

\* A decimal with its trailing fractional zeros removed (700/100 is 7).
RECURSIVE Normalize(_, _)
Normalize(n, d) ==
  IF d > 0 /\ n % 10 = 0 THEN Normalize(n \div 10, d - 1) ELSE Num(n, d)

\* v / 100 on JavaScript numbers: null converts to 0, undefined to NaN.
Div100(v) ==
  CASE v.t = "num" -> Normalize(v.n, v.d + 2)
    [] v.t = "null" -> Num(0, 0)
    [] OTHER -> NaN

Digits == <<"0", "1", "2", "3", "4", "5", "6", "7", "8", "9">>
IsDigit(c) == \E i \in 1..10 : Digits[i] = c
DigitVal(c) == (CHOOSE i \in 1..10 : Digits[i] = c) - 1
IsSpace(c) == c = " "

RECURSIVE SkipSpace(_)
SkipSpace(s) == IF s # <<>> /\ IsSpace(Head(s)) THEN SkipSpace(Tail(s)) ELSE s

\* The longest prefix of s made of digits.
RECURSIVE DigitPrefix(_)
DigitPrefix(s) ==
  IF s # <<>> /\ IsDigit(Head(s)) THEN <<Head(s)>> \o DigitPrefix(Tail(s)) ELSE <<>>

RECURSIVE DigitsValue(_, _)
DigitsValue(s, acc) ==
  IF s = <<>> THEN acc ELSE DigitsValue(Tail(s), 10 * acc + DigitVal(Head(s)))

Drop(s, k) == SubSeq(s, k + 1, Len(s))

\* parseInt(string): leading white space, an optional sign, then decimal
\* digits; whatever follows the digits is ignored; NaN when there is no digit.
ParseInt(v) ==
  IF v.t # "str" THEN NaN
  ELSE LET s0 == SkipSpace(v.s)
           neg == s0 # <<>> /\ Head(s0) = "-"
           s1 == IF s0 # <<>> /\ Head(s0) \in {"-", "+"} THEN Tail(s0) ELSE s0
           ds == DigitPrefix(s1)
       IN IF ds = <<>> THEN NaN
          ELSE Num((IF neg THEN -1 ELSE 1) * DigitsValue(ds, 0), 0)

\* parseFloat(string): as parseInt, with an optional fraction after a ".".
ParseFloat(v) ==
  IF v.t # "str" THEN NaN
  ELSE LET s0 == SkipSpace(v.s)
           neg == s0 # <<>> /\ Head(s0) = "-"
           s1 == IF s0 # <<>> /\ Head(s0) \in {"-", "+"} THEN Tail(s0) ELSE s0
           ip == DigitPrefix(s1)
           s2 == Drop(s1, Len(ip))
           fp == IF s2 # <<>> /\ Head(s2) = "." THEN DigitPrefix(Tail(s2)) ELSE <<>>
           sign == IF neg THEN -1 ELSE 1
       IN IF ip = <<>> /\ fp = <<>> THEN NaN
          ELSE Normalize(sign * DigitsValue(ip \o fp, 0), Len(fp))

\* JSON.stringify of an address object, as a sequence of tokens: each
\* property in the object's key order as "key", ":", value, separated by ","
\* and enclosed in braces; a string value is quoted, null is the token null.
AddressKeys == <<"city", "country">>

JsonValue(v) ==
  IF v.t = "str" THEN <<"\"">> \o v.s \o <<"\"">> ELSE <<"null">>

RECURSIVE JsonMembers(_, _, _)
JsonMembers(o, i, first) ==
  IF i > Len(AddressKeys) THEN <<>>
  ELSE LET k == AddressKeys[i]
       IN IF k \in DOMAIN o /\ o[k].t # "undefined"
          THEN (IF first THEN <<>> ELSE <<",">>) \o <<"\"", k, "\"", ":">>
                 \o JsonValue(o[k]) \o JsonMembers(o, i + 1, FALSE)
          ELSE JsonMembers(o, i + 1, first)

JsonStringify(v) == Str(<<"{">> \o JsonMembers(v.o, 1, TRUE) \o <<"}">>)

(***************************************************************************)
(* Order Materializer: the orderData literal of the handler.               *)
(***************************************************************************)
\* `now` stands for new Date().toISOString().
OrderData(session, now) ==
  [ user_email |-> Or(Member(session.customer_details, "email"), session.customer_email),
    binding_type |-> Member(session.metadata, "bindingType"),
    price |-> Div100(session.amount_total),
    status |-> Str(<<"p", "a", "i", "d">>),
    payment_status |-> session.payment_status,
    amount |-> session.amount_total,
    currency |-> session.currency,
    stripe_session_id |-> session.id,
    created_at |-> now,
    binding_name |-> Or(Member(session.metadata, "bindingName"), Null),
    format |-> Or(Member(session.metadata, "format"), Null),
    paper_weight |-> Or(Member(session.metadata, "paperWeight"), Null),
    printing_option |-> Or(Member(session.metadata, "printingOption"), Null),
    page_count |-> IF Truthy(Member(session.metadata, "pageCount"))
                   THEN ParseInt(session.metadata.o["pageCount"]) ELSE Null,
    total_price |-> IF Truthy(Member(session.metadata, "totalPrice"))
                    THEN ParseFloat(session.metadata.o["totalPrice"]) ELSE Null,
    payment_method |-> Or(Member(session.metadata, "paymentMethod"), Null),
    customer_name |-> Or(Member(session.customer_details, "name"), Null),
    customer_address |-> IF Truthy(Member(session.customer_details, "address"))
                         THEN JsonStringify(session.customer_details.o["address"])
                         ELSE Null,
    customer_phone |-> Or(Member(session.customer_details, "phone"), Null) ]

(***************************************************************************)
(* Inputs: sessions, event envelopes, signature headers.                   *)
(***************************************************************************)
CheckoutCompleted == "checkout.session.completed"
OtherEventType == "payment_intent.succeeded"

Eur == Str(<<"e", "u", "r">>)
Paid == Str(<<"p", "a", "i", "d">>)
MailA == Str(<<"a", "@", "x">>)
MailB == Str(<<"b", "@", "x">>)
EmptyObject == Obj([k \in {} |-> Undefined])

FullMetadata ==
  Obj([ bindingType |-> Str(<<"s", "c">>), bindingName |-> Str(<<"S", "C">>),
        format |-> Str(<<"A", "4">>), paperWeight |-> Str(<<"8", "0", "g">>),
        printingOption |-> Str(<<"1", "s">>), pageCount |-> Str(<<"1", "0">>),
        totalPrice |-> Str(<<"6", ".", "9", "5">>), paymentMethod |-> Str(<<"c", "c">>) ])

FullDetails ==
  Obj([ email |-> MailB, name |-> Str(<<"B", "o">>), phone |-> Str(<<"+", "4", "9">>),
        address |-> Obj([city |-> Str(<<"K">>), country |-> Str(<<"D", "E">>)]) ])

\* cs_1: amount_total 695, currency eur, no metadata at all.
SessionNoMetadata ==
  [ id |-> Str(<<"c", "s", "_", "1">>), amount_total |-> Num(695, 0), currency |-> Eur,
    payment_status |-> Paid, metadata |-> Undefined,
    customer_details |-> Obj([email |-> MailA]), customer_email |-> Null ]

\* cs_2: every metadata and customer field present.
SessionFull ==
  [ id |-> Str(<<"c", "s", "_", "2">>), amount_total |-> Num(1200, 0), currency |-> Eur,
    payment_status |-> Paid, metadata |-> FullMetadata,
    customer_details |-> FullDetails, customer_email |-> MailB ]

\* cs_3: empty metadata object and no email address anywhere.
SessionNoEmail ==
  [ id |-> Str(<<"c", "s", "_", "3">>), amount_total |-> Num(695, 0), currency |-> Eur,
    payment_status |-> Paid, metadata |-> EmptyObject,
    customer_details |-> Null, customer_email |-> Null ]

\* cs_4: a page count and a total price that are present but are no numbers.
SessionBadNumbers ==
  [ id |-> Str(<<"c", "s", "_", "4">>), amount_total |-> Num(695, 0), currency |-> Eur,
    payment_status |-> Paid,
    metadata |-> Obj([ pageCount |-> Str(<<"a", "b", "c">>),
                       totalPrice |-> Str(<<"n", "/", "a">>) ]),
    customer_details |-> Obj([email |-> MailA]), customer_email |-> Null ]

Sessions == {SessionNoMetadata, SessionFull, SessionNoEmail, SessionBadNumbers}

Envelope(type, session) == [type |-> type, object |-> session]

\* The raw request bodies Stripe may deliver.
Bodies ==
  {Envelope(CheckoutCompleted, s) : s \in Sessions}
    \cup {Envelope(OtherEventType, SessionNoMetadata)}

\* A body altered after it was signed.
Tampered(body) ==
  [body EXCEPT !.object.amount_total = Num(1, 0)]

LiveSecret == "whsec_live"
OtherSecret == "whsec_other"

\* The stripe-signature header: absent, or a signature of a body under a secret.
NoSignature == [t |-> "undefined"]
Signature(secret, body) == [t |-> "sig", secret |-> secret, signed |-> body]

\* The requests a sender may post: every body correctly signed, and one body
\* with each kind of bad signature.
WebhookRequests ==
  {[body |-> b, sig |-> Signature(LiveSecret, b)] : b \in Bodies}
    \cup { [body |-> Envelope(CheckoutCompleted, SessionFull), sig |-> NoSignature],
           [body |-> Envelope(CheckoutCompleted, SessionFull),
            sig |-> Signature(OtherSecret, Envelope(CheckoutCompleted, SessionFull))],
           [body |-> Tampered(Envelope(CheckoutCompleted, SessionFull)),
            sig |-> Signature(LiveSecret, Envelope(CheckoutCompleted, SessionFull))] }

NoRequest == [body |-> Envelope("none", SessionNoMetadata), sig |-> NoSignature]
NoOrder == [t |-> "none"]

(***************************************************************************)
(* State.                                                                  *)
(***************************************************************************)
RequiredEnvVars ==
  { "STRIPE_SECRET_KEY", "STRIPE_WEBHOOK_SECRET", "NEXT_PUBLIC_SUPABASE_URL",
    "SUPABASE_SERVICE_ROLE_KEY", "RESEND_API_KEY" }

VARIABLES
  env,              \* the required environment variables that are set
  stripe,           \* TRUE iff the Stripe client was constructed
  supabase,         \* TRUE iff the Supabase client was constructed
  resend,           \* TRUE iff the Resend client was constructed
  uniqueSessionId,  \* TRUE iff the orders table rejects a repeated stripe_session_id
  orders,           \* the orders table: rows in insertion order, each with the request that wrote it
  outbox,           \* the emails handed to resend.emails.send, in order
  pc,               \* pc[r]: where request r's handler is
  request,          \* request[r]: the body and signature header received
  orderData,        \* orderData[r]: the handler's local orderData
  response,         \* response[r]: the responses sent on res, in order
  steps,            \* steps[r]: the handler's steps so far, in order
  caught,           \* caught[r]: the error the handler's catch block logged
  health            \* the body of the last response of GET /

vars ==
  << env, stripe, supabase, resend, uniqueSessionId, orders, outbox,
     pc, request, orderData, response, steps, caught, health >>

config == <<env, stripe, supabase, resend, uniqueSessionId>>

missingVars == RequiredEnvVars \ env

NoHealth == [status |-> "none"]

Init ==
  /\ env \in SUBSET RequiredEnvVars
  /\ stripe = ("STRIPE_SECRET_KEY" \in env)
  /\ supabase = ("NEXT_PUBLIC_SUPABASE_URL" \in env /\ "SUPABASE_SERVICE_ROLE_KEY" \in env)
  /\ resend = ("RESEND_API_KEY" \in env)
  /\ uniqueSessionId \in BOOLEAN
  /\ orders = <<>>
  /\ outbox = <<>>
  /\ pc = [r \in Requests |-> "idle"]
  /\ request = [r \in Requests |-> NoRequest]
  /\ orderData = [r \in Requests |-> NoOrder]
  /\ response = [r \in Requests |-> <<>>]
  /\ steps = [r \in Requests |-> <<>>]
  /\ caught = [r \in Requests |-> "none"]
  /\ health = NoHealth

(***************************************************************************)
(* The handler of POST /webhook.  JavaScript runs a handler without        *)
(* interruption up to its next await, so each action is the code from one  *)
(* suspension point to the next.                                           *)
(***************************************************************************)
\* Faulty variant of Arrives: the server takes the next request only when the
\* one before it has been answered (blocking I/O).
ArrivesSerialized(r) == pc[r] = "idle" /\ \A q \in Requests : q < r => pc[q] = "done"

\* Requests are numbered in their order of arrival.
Arrives(r) == pc[r] = "idle" /\ \A q \in Requests : q < r => pc[q] # "idle"

\* Faulty variant of ServicesAvailable: only the Stripe client is looked at.
StripeAvailableOnly == stripe

ServicesAvailable == stripe /\ supabase /\ resend

\* stripe.webhooks.constructEvent: throws unless the header carries a
\* signature of exactly these body bytes under the configured secret.
\* Faulty variant of SignatureVerifies: the signed bytes are not compared with the body.
SignatureVerifiesHeaderOnly(req) ==
  /\ req.sig.t = "sig"
  /\ "STRIPE_WEBHOOK_SECRET" \in env
  /\ req.sig.secret = LiveSecret

SignatureVerifies(req) ==
  /\ req.sig.t = "sig"
  /\ "STRIPE_WEBHOOK_SECRET" \in env
  /\ req.sig.secret = LiveSecret
  /\ req.sig.signed = req.body

\* The event constructEvent returns: the parsed body.
ConstructEvent(req) == [type |-> req.body.type, data |-> [object |-> req.body.object]]

\* Faulty variant of IsCheckoutCompleted: every verified event enters the pipeline.
AnyEventType(event) == TRUE

\* if (event.type === 'checkout.session.completed')
IsCheckoutCompleted(event) == event.type = CheckoutCompleted

Now(r) == [t |-> "date", tick |-> r]

\* res.status(500).json({error, missing}) before anything else is looked at.
ConfigFault(r) ==
  \E req \in WebhookRequests :
    /\ Arrives(r)
    /\ ~ServicesAvailable
    /\ request' = [request EXCEPT ![r] = req]
    /\ steps' = [steps EXCEPT ![r] = <<"check_services", "respond">>]
    /\ response' = [response EXCEPT ![r] = Append(@, [status |-> 500, missing |-> missingVars])]
    /\ pc' = [pc EXCEPT ![r] = "done"]
    /\ UNCHANGED <<config, health, orders, outbox, orderData, caught>>

\* Faulty variant of AuthFailure: the 400 is sent without return, so the
\* handler runs on to the final res.status(200).
AuthFailureNoReturn(r) ==
  \E req \in WebhookRequests :
    /\ Arrives(r)
    /\ ServicesAvailable
    /\ ~SignatureVerifies(req)
    /\ request' = [request EXCEPT ![r] = req]
    /\ steps' = [steps EXCEPT ![r] = <<"check_services", "verify", "respond">>]
    /\ response' = [response EXCEPT ![r] = @ \o <<[status |-> 400], [status |-> 200, received |-> TRUE]>>]
    /\ pc' = [pc EXCEPT ![r] = "done"]
    /\ UNCHANGED <<config, health, orders, outbox, orderData, caught>>

\* constructEvent throws: res.status(400).send("Webhook Error: ...").
AuthFailure(r) ==
  \E req \in WebhookRequests :
    /\ Arrives(r)
    /\ ServicesAvailable
    /\ ~SignatureVerifies(req)
    /\ request' = [request EXCEPT ![r] = req]
    /\ steps' = [steps EXCEPT ![r] = <<"check_services", "verify", "respond">>]
    /\ response' = [response EXCEPT ![r] = Append(@, [status |-> 400])]
    /\ pc' = [pc EXCEPT ![r] = "done"]
    /\ UNCHANGED <<config, health, orders, outbox, orderData, caught>>

Acknowledge == [status |-> 200, received |-> TRUE]

\* A verified event of another type: logged, then res.status(200).json(...).
IgnoreEvent(r) ==
  \E req \in WebhookRequests :
    /\ Arrives(r)
    /\ ServicesAvailable
    /\ SignatureVerifies(req)
    /\ ~IsCheckoutCompleted(ConstructEvent(req))
    /\ request' = [request EXCEPT ![r] = req]
    /\ steps' = [steps EXCEPT ![r] = <<"check_services", "verify", "route", "respond">>]
    /\ response' = [response EXCEPT ![r] = Append(@, Acknowledge)]
    /\ pc' = [pc EXCEPT ![r] = "done"]
    /\ UNCHANGED <<config, health, orders, outbox, orderData, caught>>

\* A verified checkout.session.completed event: build orderData and call
\* supabase.from('orders').insert([orderData]); the handler suspends on the await.
BeginCheckout(r) ==
  \E req \in WebhookRequests :
    /\ Arrives(r)
    /\ ServicesAvailable
    /\ SignatureVerifies(req)
    /\ IsCheckoutCompleted(ConstructEvent(req))
    /\ request' = [request EXCEPT ![r] = req]
    /\ IF ~supabase
       THEN /\ steps' = [steps EXCEPT ![r] =
                           <<"check_services", "verify", "route", "catch", "respond">>]
            /\ caught' = [caught EXCEPT ![r] = "Supabase client not initialized"]
            /\ response' = [response EXCEPT ![r] = Append(@, Acknowledge)]
            /\ pc' = [pc EXCEPT ![r] = "done"]
            /\ UNCHANGED orderData
       ELSE /\ orderData' = [orderData EXCEPT ![r] =
                               OrderData(ConstructEvent(req).data.object, Now(r))]
            /\ steps' = [steps EXCEPT ![r] =
                           <<"check_services", "verify", "route", "materialize", "insert_call">>]
            /\ pc' = [pc EXCEPT ![r] = "await_insert"]
            /\ UNCHANGED <<response, caught>>
    /\ UNCHANGED <<config, health, orders, outbox>>

\* The JSON body supabase-js posts for insert([orderData]): JSON.stringify
\* leaves out the properties whose value is undefined and writes NaN as null.
InsertPayload(o) ==
  [k \in {f \in DOMAIN o : o[f].t # "undefined"} |->
     IF o[k].t = "NaN" THEN Null ELSE o[k]]

\* Whether the table holds a row of this session already.
HasOrder(sid) == \E i \in 1..Len(orders) : orders[i].row.stripe_session_id = sid

\* The payload sendConfirmationEmail hands to resend.emails.send.
EmailPayload(o) ==
  [from |-> "info@pocat.de", to |-> o.user_email, subject |-> "Danke für deine Bestellung"]

\* Faulty variant of CatchAndAcknowledge: the error leaves the handler and the
\* request is answered 500.
CatchAndFail(r, events, message) ==
  /\ steps' = [steps EXCEPT ![r] = @ \o events \o <<"catch", "respond">>]
  /\ caught' = [caught EXCEPT ![r] = message]
  /\ response' = [response EXCEPT ![r] = Append(@, [status |-> 500])]
  /\ pc' = [pc EXCEPT ![r] = "done"]

\* The catch block of the handler logs the error; the handler then falls
\* through to res.status(200).json({received: true, requestId}).
CatchAndAcknowledge(r, events, message) ==
  /\ steps' = [steps EXCEPT ![r] = @ \o events \o <<"catch", "respond">>]
  /\ caught' = [caught EXCEPT ![r] = message]
  /\ response' = [response EXCEPT ![r] = Append(@, Acknowledge)]
  /\ pc' = [pc EXCEPT ![r] = "done"]

\* What the insert call observed when it settled: "existing" records that the
\* table held a row of the same session at that moment.
Settled(r, outcome) ==
  (IF HasOrder(orderData[r].stripe_session_id) THEN <<"existing">> ELSE <<>>) \o <<outcome>>

\* Faulty variant of InsertOk: sendConfirmationEmail is called without await,
\* so the handler answers while the send is still under way.
InsertOkNoAwait(r) ==
  /\ pc[r] = "await_insert"
  /\ ~(uniqueSessionId /\ HasOrder(orderData[r].stripe_session_id))
  /\ orders' = Append(orders, [row |-> InsertPayload(orderData[r]), by |-> r])
  /\ outbox' = Append(outbox, [mail |-> EmailPayload(orderData[r]), by |-> r])
  /\ steps' = [steps EXCEPT ![r] = @ \o Settled(r, "insert_ok") \o <<"email_call", "respond">>]
  /\ response' = [response EXCEPT ![r] = Append(@, Acknowledge)]
  /\ pc' = [pc EXCEPT ![r] = "done"]
  /\ UNCHANGED <<config, health, request, orderData, caught>>

\* The insert resolves with no error: the row is in the table.  The handler
\* goes on into sendConfirmationEmail up to its await of resend.emails.send.
InsertOk(r) ==
  /\ pc[r] = "await_insert"
  /\ ~(uniqueSessionId /\ HasOrder(orderData[r].stripe_session_id))
  /\ orders' = Append(orders, [row |-> InsertPayload(orderData[r]), by |-> r])
  /\ IF ~resend
     THEN /\ CatchAndAcknowledge(r, Settled(r, "insert_ok"), "Resend client not initialized")
          /\ UNCHANGED outbox
     ELSE /\ outbox' = Append(outbox, [mail |-> EmailPayload(orderData[r]), by |-> r])
          /\ steps' = [steps EXCEPT ![r] = @ \o Settled(r, "insert_ok") \o <<"email_call">>]
          /\ pc' = [pc EXCEPT ![r] = "await_email"]
          /\ UNCHANGED <<response, caught>>
  /\ UNCHANGED <<config, health, request, orderData>>

\* Faulty variant of InsertDuplicate: a duplicate-key error is taken as
\* success and the handler goes on to send the email.
InsertDuplicateThenNotify(r) ==
  /\ pc[r] = "await_insert"
  /\ uniqueSessionId /\ HasOrder(orderData[r].stripe_session_id)
  /\ outbox' = Append(outbox, [mail |-> EmailPayload(orderData[r]), by |-> r])
  /\ steps' = [steps EXCEPT ![r] = @ \o Settled(r, "insert_duplicate") \o <<"email_call">>]
  /\ pc' = [pc EXCEPT ![r] = "await_email"]
  /\ UNCHANGED <<config, health, orders, request, orderData, response, caught>>

\* The table has a uniqueness constraint and holds a row of this session: the
\* insert resolves with a duplicate-key {error} and the handler throws
\* "Supabase insert failed", as for any other error.
InsertDuplicate(r) ==
  /\ pc[r] = "await_insert"
  /\ uniqueSessionId /\ HasOrder(orderData[r].stripe_session_id)
  /\ CatchAndAcknowledge(r, Settled(r, "insert_duplicate"), "Supabase insert failed")
  /\ UNCHANGED <<config, health, orders, outbox, request, orderData>>

\* Faulty variant of InsertError: the error is only logged and the handler goes on to
\* send the email.
InsertErrorThenNotify(r) ==
  /\ pc[r] = "await_insert"
  /\ outbox' = Append(outbox, [mail |-> EmailPayload(orderData[r]), by |-> r])
  /\ steps' = [steps EXCEPT ![r] = @ \o <<"insert_error", "email_call">>]
  /\ pc' = [pc EXCEPT ![r] = "await_email"]
  /\ UNCHANGED <<config, health, orders, request, orderData, response, caught>>

\* The insert resolves with another {error} (a schema mismatch, a refused
\* connection, ...): nothing was written; the handler throws "Supabase insert
\* failed".
InsertError(r) ==
  /\ pc[r] = "await_insert"
  /\ CatchAndAcknowledge(r, <<"insert_error">>, "Supabase insert failed")
  /\ UNCHANGED <<config, health, orders, outbox, request, orderData>>

\* Faulty variant of InsertThrows: the rejection is swallowed and the handler
\* goes on to send the email.
InsertThrowsThenNotify(r) ==
  /\ pc[r] = "await_insert"
  /\ outbox' = Append(outbox, [mail |-> EmailPayload(orderData[r]), by |-> r])
  /\ steps' = [steps EXCEPT ![r] = @ \o <<"insert_throw", "email_call">>]
  /\ pc' = [pc EXCEPT ![r] = "await_email"]
  /\ UNCHANGED <<config, health, orders, request, orderData, response, caught>>

\* Faulty variant of InsertThrows: a rejected insert is tried a second time.
InsertThrowsRetry(r) ==
  /\ pc[r] = "await_insert"
  /\ IF \E i \in 1..Len(steps[r]) : steps[r][i] = "insert_throw"
     THEN CatchAndAcknowledge(r, <<"insert_throw">>, "insert rejected")
     ELSE /\ steps' = [steps EXCEPT ![r] = @ \o <<"insert_throw", "insert_call">>]
          /\ UNCHANGED <<pc, response, caught>>
  /\ UNCHANGED <<config, health, orders, outbox, request, orderData>>

\* The awaited insert rejects (the store cannot be reached).
InsertThrows(r) ==
  /\ pc[r] = "await_insert"
  /\ CatchAndAcknowledge(r, <<"insert_throw">>, "insert rejected")
  /\ UNCHANGED <<config, health, orders, outbox, request, orderData>>

\* The insert call never settles: the await has no timeout, so the handler
\* stays suspended on it.
InsertNeverReturns(r) ==
  /\ pc[r] = "await_insert"
  /\ pc' = [pc EXCEPT ![r] = "stuck_insert"]
  /\ steps' = [steps EXCEPT ![r] = Append(@, "insert_timeout")]
  /\ UNCHANGED <<config, health, orders, outbox, request, orderData, response, caught>>

\* resend.emails.send resolves with no error; the provider accepts a message
\* only if it has an address.
EmailOk(r) ==
  /\ pc[r] = "await_email"
  /\ Truthy(orderData[r].user_email)
  /\ steps' = [steps EXCEPT ![r] = @ \o <<"email_ok", "respond">>]
  /\ response' = [response EXCEPT ![r] = Append(@, Acknowledge)]
  /\ pc' = [pc EXCEPT ![r] = "done"]
  /\ UNCHANGED <<config, health, orders, outbox, request, orderData, caught>>

\* Faulty variant of EmailError: the row the request inserted is deleted again.
EmailErrorWithRollback(r) ==
  /\ pc[r] = "await_email"
  /\ CatchAndAcknowledge(r, <<"email_error">>, "Email send failed")
  /\ orders' = SelectSeq(orders, LAMBDA o : o.by # r)
  /\ UNCHANGED <<config, health, outbox, request, orderData>>

\* resend.emails.send resolves with {error}: sendConfirmationEmail throws
\* "Email send failed", rethrows from its own catch, and the handler catches it.
EmailError(r) ==
  /\ pc[r] = "await_email"
  /\ CatchAndAcknowledge(r, <<"email_error">>, "Email send failed")
  /\ UNCHANGED <<config, health, orders, outbox, request, orderData>>

\* The awaited send rejects (the provider cannot be reached).
EmailThrows(r) ==
  /\ pc[r] = "await_email"
  /\ CatchAndAcknowledge(r, <<"email_throw">>, "send rejected")
  /\ UNCHANGED <<config, health, orders, outbox, request, orderData>>

\* The send call never settles.
EmailNeverReturns(r) ==
  /\ pc[r] = "await_email"
  /\ pc' = [pc EXCEPT ![r] = "stuck_email"]
  /\ steps' = [steps EXCEPT ![r] = Append(@, "email_timeout")]
  /\ UNCHANGED <<config, health, orders, outbox, request, orderData, response, caught>>

\* Faulty variant of HealthCheck: readiness is read from single environment
\* variables, as the start-up log does, not from the clients.
HealthCheckFromEnv ==
  /\ health' = [ status |-> "OK",
                 services |-> [ stripe |-> "STRIPE_SECRET_KEY" \in env,
                                supabase |-> "NEXT_PUBLIC_SUPABASE_URL" \in env,
                                resend |-> "RESEND_API_KEY" \in env ],
                 missing |-> missingVars ]
  /\ UNCHANGED <<config, orders, outbox, pc, request, orderData, response, steps, caught>>

\* GET /: res.json({status, timestamp, environment, services, missing}).
HealthCheck ==
  /\ health' = [ status |-> "OK",
                 services |-> [stripe |-> stripe, supabase |-> supabase, resend |-> resend],
                 missing |-> missingVars ]
  /\ UNCHANGED <<config, orders, outbox, pc, request, orderData, response, steps, caught>>

\* The continuation that runs when an awaited call settles.
InsertReturns(r) == InsertOk(r) \/ InsertDuplicate(r) \/ InsertError(r) \/ InsertThrows(r)
EmailReturns(r) == EmailOk(r) \/ EmailError(r) \/ EmailThrows(r)

HandlerStep(r) ==
    \/ ConfigFault(r)
    \/ AuthFailure(r)
    \/ IgnoreEvent(r)
    \/ BeginCheckout(r)
    \/ InsertOk(r)
    \/ InsertDuplicate(r)
    \/ InsertError(r)
    \/ InsertThrows(r)
    \/ InsertNeverReturns(r)
    \/ EmailOk(r)
    \/ EmailError(r)
    \/ EmailThrows(r)
    \/ EmailNeverReturns(r)

Next == HealthCheck \/ \E r \in Requests : HandlerStep(r)

Spec == Init /\ [][Next]_vars

\* The event loop runs a handler's continuation once the call it awaits has
\* settled.
FairSpec ==
  Spec /\ \A r \in Requests : WF_vars(InsertReturns(r)) /\ WF_vars(EmailReturns(r))

TypeOK ==
  /\ pc \in [Requests -> {"idle", "await_insert", "await_email", "stuck_insert", "stuck_email", "done"}]
  /\ \A r \in Requests : Len(response[r]) <= 1

(***************************************************************************)
(* Properties.                                                             *)
(***************************************************************************)
Has(seq, x) == \E i \in 1..Len(seq) : seq[i] = x

\* The rows request r wrote and the emails it handed to the provider.
RowsBy(r) == {i \in 1..Len(orders) : orders[i].by = r}
MailsBy(r) == {i \in 1..Len(outbox) : outbox[i].by = r}

Received(r) == pc[r] # "idle"
PassedVerification(r) == Has(steps[r], "route")
InsertFailed(r) ==
  Has(steps[r], "insert_error") \/ Has(steps[r], "insert_throw")
    \/ Has(steps[r], "insert_duplicate")
EmailFailed(r) == Has(steps[r], "email_error") \/ Has(steps[r], "email_throw")
SessionOf(r) == request[r].body.object

\* C1: every request whose signature verification succeeded is answered with
\* 200 {received: true} and nothing else, whatever its event type and whether
\* the insert or the email send succeeded, returned an error or threw; a
\* request whose insert failed wrote no row.
C1_VerifiedIsAcknowledged ==
  \A r \in Requests :
    PassedVerification(r) =>
      /\ \A i \in 1..Len(response[r]) :
           response[r][i].status = 200 /\ response[r][i].received
      /\ pc[r] = "done" => Len(response[r]) = 1
      /\ InsertFailed(r) => RowsBy(r) = {}

\* C1 witness: one request was acknowledged after its insert threw, another
\* after its email send failed.
C1_Witness ==
  \E r, q \in Requests :
    /\ Has(steps[r], "insert_throw") /\ response[r] = <<Acknowledge>> /\ RowsBy(r) = {}
    /\ EmailFailed(q) /\ response[q] = <<Acknowledge>>

\* The three ways a signature fails: no header, another secret, altered bytes.
SignatureAbsent(req) == req.sig.t = "undefined"
SignedWithOtherSecret(req) == req.sig.t = "sig" /\ req.sig.secret # LiveSecret
BodyTampered(req) == req.sig.t = "sig" /\ req.sig.signed # req.body
BadSignature(req) ==
  SignatureAbsent(req) \/ SignedWithOtherSecret(req) \/ BodyTampered(req)

\* C2: with the three clients constructed, a request whose signature header is
\* absent, made with another secret, or made over other bytes is answered 400
\* (once), writes no row and sends no email.
C2_BadSignatureRejected ==
  \A r \in Requests :
    (Received(r) /\ stripe /\ supabase /\ resend /\ BadSignature(request[r])) =>
      /\ Len(response[r]) = 1 /\ response[r][1].status = 400
      /\ pc[r] = "done"
      /\ RowsBy(r) = {} /\ MailsBy(r) = {}
      /\ ~Has(steps[r], "route")

\* C2 witness: a tampered request and a request without header were both
\* rejected while a configured server was running.
C2_Witness ==
  \E r, q \in Requests :
    /\ "STRIPE_WEBHOOK_SECRET" \in env
    /\ BodyTampered(request[r]) /\ response[r] = <<[status |-> 400]>>
    /\ SignatureAbsent(request[q]) /\ response[q] = <<[status |-> 400]>>

\* C3 (as stated): the table never holds two rows with the same
\* stripe_session_id, however often or concurrently the same authentic
\* checkout-completed event is delivered.
C3_OneRecordPerSession ==
  \A i, j \in 1..Len(orders) :
    orders[i].row.stripe_session_id = orders[j].row.stripe_session_id => i = j

\* C4 (as stated): when a row of the same session already exists as the insert
\* of a redelivered event settles, the persist step is a no-op success: the
\* request adds no row and its handler's catch block logs no failure.
C4_RedeliveryIsNoOpSuccess ==
  \A r \in Requests :
    Has(steps[r], "existing") => RowsBy(r) = {} /\ caught[r] = "none"

C6_MissingClientIs500 ==
  \A r \in Requests :
    (Received(r) /\ ~(stripe /\ supabase /\ resend)) =>
      /\ Len(response[r]) = 1 /\ response[r][1].status = 500
      /\ ~Has(steps[r], "verify")
      /\ RowsBy(r) = {} /\ MailsBy(r) = {}

\* C6 witness: only the Resend client is missing and a correctly signed
\* checkout-completed event was answered 500.
C6_Witness ==
  \E r \in Requests :
    /\ stripe /\ supabase /\ ~resend /\ "STRIPE_WEBHOOK_SECRET" \in env
    /\ ~BadSignature(request[r]) /\ request[r].body.type = CheckoutCompleted
    /\ Len(response[r]) = 1 /\ response[r][1].status = 500

\* C7: a verified event of any type other than checkout.session.completed is
\* answered 200, builds no order, writes no row and sends no email; only that
\* type enters materialize, persist and notify.
C7_OtherTypesIgnored ==
  \A r \in Requests :
    /\ (PassedVerification(r) /\ request[r].body.type # CheckoutCompleted) =>
         /\ response[r] = <<Acknowledge>>
         /\ orderData[r] = NoOrder
         /\ RowsBy(r) = {} /\ MailsBy(r) = {}
    /\ (Has(steps[r], "materialize") \/ RowsBy(r) # {} \/ MailsBy(r) # {}) =>
         request[r].body.type = CheckoutCompleted

\* C7 witness: a verified payment_intent.succeeded event was acknowledged.
C7_Witness ==
  \E r \in Requests :
    /\ PassedVerification(r) /\ request[r].body.type = OtherEventType
    /\ response[r] = <<Acknowledge>>

\* C8 (as stated): a request whose insert call or email send never returns is
\* still eventually answered 200.
C8_TimeoutStillAcknowledged ==
  \A r \in Requests :
    (pc[r] \in {"stuck_insert", "stuck_email"}) ~> (response[r] = <<Acknowledge>>)

\* C9: when the email send of a request fails after its row was inserted, the
\* row is still in the table, exactly as inserted, and the request is
\* answered 200.
C9_EmailFailureKeepsRecord ==
  \A r \in Requests :
    EmailFailed(r) =>
      /\ \E i \in 1..Len(orders) :
           /\ orders[i].by = r
           /\ orders[i].row = InsertPayload(orderData[r])
           /\ orders[i].row.stripe_session_id = SessionOf(r).id
      /\ response[r] = <<Acknowledge>>

\* C9 witness: the email of an order without any address was refused by the
\* provider, and the order's row is in the table.
C9_Witness ==
  \E r \in Requests :
    /\ Has(steps[r], "email_error") /\ ~Truthy(orderData[r].user_email)
    /\ RowsBy(r) # {} /\ response[r] = <<Acknowledge>>

\* The optional fields of the order record and the payload property each is
\* taken from.
MetadataFields ==
  { <<"binding_type", "bindingType">>, <<"binding_name", "bindingName">>,
    <<"format", "format">>, <<"paper_weight", "paperWeight">>,
    <<"printing_option", "printingOption">>, <<"page_count", "pageCount">>,
    <<"total_price", "totalPrice">>, <<"payment_method", "paymentMethod">> }
CustomerFields ==
  { <<"customer_name", "name">>, <<"customer_phone", "phone">>,
    <<"customer_address", "address">> }

Missing(v, k) == v.t # "obj" \/ k \notin DOMAIN v.o

\* C10 (as stated): in every materialized order, each optional field whose
\* source property is missing from the payload is null.
C10_MissingFieldsAreNull ==
  \A r \in Requests :
    Has(steps[r], "materialize") =>
      /\ \A f \in MetadataFields :
           Missing(SessionOf(r).metadata, f[2]) => orderData[r][f[1]] = Null
      /\ \A f \in CustomerFields :
           Missing(SessionOf(r).customer_details, f[2]) => orderData[r][f[1]] = Null

\* A string without any digit: no number can be read from it.
NotNumeric(v) == v.t = "str" /\ v.s # <<>> /\ \A i \in 1..Len(v.s) : ~IsDigit(v.s[i])

\* C11 (as stated): in every materialized order, a page count or total price
\* that is present in the metadata but is no number is null, as if absent.
C11_UnparseableNumbersAreNull ==
  \A r \in Requests :
    (Has(steps[r], "materialize") /\ SessionOf(r).metadata.t = "obj") =>
      /\ ("pageCount" \in DOMAIN SessionOf(r).metadata.o
            /\ NotNumeric(SessionOf(r).metadata.o["pageCount"]))
           => orderData[r].page_count = Null
      /\ ("totalPrice" \in DOMAIN SessionOf(r).metadata.o
            /\ NotNumeric(SessionOf(r).metadata.o["totalPrice"]))
           => orderData[r].total_price = Null

\* Whether each client was constructed at start-up, from the environment.
ConstructedAtStartup ==
  [ stripe |-> "STRIPE_SECRET_KEY" \in env,
    supabase |-> ("NEXT_PUBLIC_SUPABASE_URL" \in env /\ "SUPABASE_SERVICE_ROLE_KEY" \in env),
    resend |-> "RESEND_API_KEY" \in env ]

\* C12: the readiness booleans GET / reports are, for each backing service,
\* whether its client was constructed at start-up, and no step of any request
\* changes the clients or the environment they were constructed from.
C12_ReadinessFixed ==
  /\ [](/\ [stripe |-> stripe, supabase |-> supabase, resend |-> resend] = ConstructedAtStartup
        /\ health # NoHealth => health.services = ConstructedAtStartup)
  /\ [][stripe' = stripe /\ supabase' = supabase /\ resend' = resend /\ env' = env]_vars

\* C12 witness: the server started with the Supabase key missing, answered a
\* webhook request with 500, and GET / then reported supabase as not ready.
C12_Witness ==
  /\ "SUPABASE_SERVICE_ROLE_KEY" \notin env /\ "NEXT_PUBLIC_SUPABASE_URL" \in env
  /\ \E r \in Requests : Len(response[r]) = 1 /\ response[r][1].status = 500
  /\ health # NoHealth /\ ~health.services.supabase /\ health.services.stripe

\* The place of each step in the order verify, route, materialize, persist,
\* notify, acknowledge.
StepRank(e) ==
  CASE e = "check_services" -> 0
    [] e = "verify" -> 1
    [] e = "route" -> 2
    [] e = "materialize" -> 3
    [] e = "insert_call" -> 4
    [] e = "existing" -> 5
    [] e \in {"insert_ok", "insert_duplicate", "insert_error", "insert_throw", "insert_timeout"} -> 6
    [] e = "email_call" -> 7
    [] e \in {"email_ok", "email_error", "email_throw", "email_timeout"} -> 8
    [] e = "catch" -> 9
    [] e = "respond" -> 10

InsertSettled(r) ==
  \E e \in {"insert_ok", "insert_duplicate", "insert_error", "insert_throw"} : Has(steps[r], e)
EmailSettled(r) ==
  \E e \in {"email_ok", "email_error", "email_throw"} : Has(steps[r], e)

\* C13: the steps of one request happen in the order verify, route,
\* materialize, persist, notify, acknowledge; an email is handed to the
\* provider only once the request's insert has settled, and a checkout
\* request is answered only once its insert and, if attempted, its send have
\* settled.
C13_StepsInOrder ==
  \A r \in Requests :
    /\ \A i, j \in 1..Len(steps[r]) :
         i < j => StepRank(steps[r][i]) < StepRank(steps[r][j])
    /\ MailsBy(r) # {} =>
         InsertSettled(r) /\ pc[r] \notin {"await_insert", "stuck_insert"}
    /\ (response[r] # <<>> /\ Has(steps[r], "materialize")) =>
         /\ InsertSettled(r)
         /\ MailsBy(r) # {} => EmailSettled(r)
         /\ pc[r] = "done"

\* C13 witness: a request went through every step, from verification to the
\* 200 after a delivered email.
C13_Witness ==
  \E r \in Requests :
    /\ steps[r] = << "check_services", "verify", "route", "materialize", "insert_call",
                     "insert_ok", "email_call", "email_ok", "respond" >>
    /\ response[r] = <<Acknowledge>> /\ RowsBy(r) # {} /\ MailsBy(r) # {}

Count(seq, x) == Cardinality({i \in 1..Len(seq) : seq[i] = x})

\* C14: a request calls the store insert at most once and the email send at
\* most once, whatever the outcome of the call: each call settles at most
\* once, and the request writes at most one row and hands over at most one
\* email.
C14_SingleAttempt ==
  \A r \in Requests :
    /\ Count(steps[r], "insert_call") <= 1
    /\ Count(steps[r], "email_call") <= 1
    /\ Cardinality(RowsBy(r)) <= 1
    /\ Cardinality(MailsBy(r)) = Count(steps[r], "email_call")
    /\ (InsertFailed(r) /\ pc[r] = "done") => Count(steps[r], "insert_call") = 1
    /\ (EmailFailed(r) /\ pc[r] = "done") => Cardinality(MailsBy(r)) = 1

\* C14 witness: one request finished after its only insert attempt threw,
\* another after its only email attempt returned an error.
C14_Witness ==
  \E r, q \in Requests :
    /\ Has(steps[r], "insert_throw") /\ pc[r] = "done" /\ Count(steps[r], "insert_call") = 1
    /\ Has(steps[q], "email_error") /\ pc[q] = "done" /\ Cardinality(MailsBy(q)) = 1

IsCheckout(r) == Has(steps[r], "materialize")
SameSession(r, q) == SessionOf(r).id = SessionOf(q).id
Suspended(r) == pc[r] \in {"await_insert", "await_email", "stuck_insert", "stuck_email"}

\* C15: requests for different sessions do not hinder each other.  Whatever
\* the other requests are suspended on, the next request can be taken, an
\* awaited insert of a session no other request carries can succeed, and an
\* awaited send can settle; and when two checkout requests for different
\* sessions have finished without an insert failure, each has its row in the
\* table and both were answered 200.
C15_ConcurrentSessionsIndependent ==
  \A r \in Requests :
    /\ (pc[r] = "idle" /\ \A q \in Requests : q < r => pc[q] # "idle")
         => ENABLED HandlerStep(r)
    /\ (pc[r] = "await_insert"
          /\ \A q \in Requests \ {r} : IsCheckout(q) => ~SameSession(r, q))
         => ENABLED InsertOk(r)
    /\ pc[r] = "await_email" => ENABLED EmailReturns(r)
    /\ \A q \in Requests \ {r} :
         ( /\ IsCheckout(r) /\ IsCheckout(q) /\ ~SameSession(r, q)
           /\ pc[r] = "done" /\ pc[q] = "done"
           /\ ~InsertFailed(r) /\ ~InsertFailed(q) )
         => /\ \E i \in RowsBy(r) : orders[i].row.stripe_session_id = SessionOf(r).id
            /\ \E i \in RowsBy(q) : orders[i].row.stripe_session_id = SessionOf(q).id
            /\ response[r] = <<Acknowledge>> /\ response[q] = <<Acknowledge>>

\* C15 witness: two checkout requests for different sessions overlapped (the
\* later one's row was written first, while the earlier one was suspended on
\* its insert), and both ended with their row stored and a 200.
C15_Witness ==
  \E r, q \in Requests :
    /\ r < q /\ IsCheckout(r) /\ IsCheckout(q) /\ ~SameSession(r, q)
    /\ Len(orders) = 2 /\ orders[1].by = q /\ orders[2].by = r
    /\ response[r] = <<Acknowledge>> /\ response[q] = <<Acknowledge>>

\* The status the request's input calls for: 500 with a client missing, 400
\* with a signature that does not verify, 200 otherwise.
ExpectedStatus(r) ==
  IF ~(stripe /\ supabase /\ resend) THEN 500
  ELSE IF BadSignature(request[r]) \/ "STRIPE_WEBHOOK_SECRET" \notin env THEN 400
  ELSE 200

\* C16: a request is never answered twice; a request whose handler has ended
\* was answered exactly once, with 500, 400 or 200 as its input calls for; and
\* a request that arrived and has no answer yet is suspended on a store or
\* email call that has not returned.
C16_ExactlyOneResponse ==
  \A r \in Requests :
    /\ Len(response[r]) <= 1
    /\ pc[r] = "done" <=> Len(response[r]) = 1
    /\ Len(response[r]) = 1 => response[r][1].status = ExpectedStatus(r)
    /\ (Received(r) /\ response[r] = <<>>) =>
         /\ Suspended(r)
         /\ ExpectedStatus(r) = 200

\* C16 witness: on a configured server one request was answered 400 and
\* another 200, each once.
C16_Witness ==
  \E r, q \in Requests :
    /\ Len(response[r]) = 1 /\ response[r][1].status = 400
    /\ Len(response[q]) = 1 /\ response[q][1].status = 200 /\ EmailSettled(q)

Position(seq, x) == CHOOSE i \in 1..Len(seq) : seq[i] = x

\* C17: every email handed to the provider belongs to a request whose own
\* insert had succeeded before: that request's row, for the same session, is
\* in the table, the insert settled without error before the send was called,
\* and the email is addressed to the order's email field.
C17_EmailOnlyAfterOwnInsert ==
  \A i \in 1..Len(outbox) :
    LET r == outbox[i].by
    IN /\ \E j \in RowsBy(r) : orders[j].row.stripe_session_id = SessionOf(r).id
       /\ Has(steps[r], "insert_ok") /\ ~InsertFailed(r)
       /\ Position(steps[r], "insert_ok") < Position(steps[r], "email_call")
       /\ outbox[i].mail.to = orderData[r].user_email

\* C17 witness: of two checkout requests, one sent its email after its insert
\* succeeded and the other, whose insert threw, sent none.
C17_Witness ==
  \E r, q \in Requests :
    /\ MailsBy(r) # {} /\ RowsBy(r) # {} /\ EmailSettled(r)
    /\ Has(steps[q], "insert_throw") /\ MailsBy(q) = {} /\ pc[q] = "done"

\* The emails handed over for a session, over all requests.
MailsOfSession(sid) ==
  {i \in 1..Len(outbox) : orderData[outbox[i].by].stripe_session_id = sid}

\* C18: when the table rejects a second row of an existing stripe_session_id,
\* all deliveries of the same checkout-completed event together hand at most
\* one confirmation email to the provider.
C18_OneEmailPerSession ==
  uniqueSessionId =>
    \A s \in Sessions : Cardinality(MailsOfSession(s.id)) <= 1

\* C18 witness: the table rejects duplicates, the same event was delivered
\* twice while the first delivery was still suspended on its send, the second
\* insert was refused, and exactly one email was handed over.
C18_Witness ==
  \E r, q \in Requests :
    /\ uniqueSessionId /\ r # q /\ IsCheckout(r) /\ IsCheckout(q) /\ SameSession(r, q)
    /\ Has(steps[q], "insert_duplicate") /\ pc[q] = "done"
    /\ pc[r] = "await_email"
    /\ Cardinality(MailsOfSession(SessionOf(r).id)) = 1

====
